---- MODULE Spec2Model ----
(***************************************************************************)
(* A model of the MJPEG/AVI builder of src/js/mjpegaudio.js: the builder   *)
(* object (MJPEGBuilder), its accumulating operations (setup, addFrame,    *)
(* addAudio), the container assembler (finish) and the structured writer   *)
(* (appendStruct).                                                          *)
(*                                                                         *)
(* Representation.                                                         *)
(*  - A JavaScript Number is a record [n, d]: the rational n/d, with d = 0  *)
(*    for the two non-finite values the code can compute (n/0 = Infinity,   *)
(*    0/0 = NaN).                                                          *)
(*  - A Blob made from one buffer is [size, src, pad]: its byte length, a   *)
(*    label of the bytes it was made from and the number of zero bytes      *)
(*    appended to them.                                                    *)
(*  - A possibly-undefined property is a sequence of length 0 or 1.         *)
(*  - A structured record is a TLA+ record holding its fields and its       *)
(*    "_order" list, as in the source.                                     *)
(*  - The array handed to the Blob constructor is a sequence of parts, one  *)
(*    per push: characters, an ArrayBuffer of bytes, or a Blob.            *)
(***************************************************************************)
EXTENDS Integers, Sequences, FiniteSets, TLC

\* ------------------------------------------------------------------ bounds

\* Most frames a builder accumulates in the model (addFrame is disabled beyond it).
MaxFrames == 3

\* Most fields in the order list of a record handed to the writer on its own.
MaxOrder == 2

\* Most calls of start, and of stop, on one recorder.
MaxStarts == 2
MaxStops == 1

\* Most frames one recording of the recorder captures.
MaxTicks == 1

\* ------------------------------------------------------ program constants

AVIF_HASINDEX == 16
AVIIF_KEYFRAME == 16
RateBase == 1000000
VIDEO_WIDTH == 480
VIDEO_HEIGHT == 360
VIDEO_FPS == 15

\* --------------------------------------------------- JavaScript numbers

Num(i) == [n |-> i, d |-> 1]
Infinity == [n |-> 1, d |-> 0]
NaN == [n |-> 0, d |-> 0]

\* The integer held by a Number that is whole.
IntOf(x) == x.n \div x.d

\* a / b for whole a >= 0 and b >= 0, as IEEE division gives it.
JSDiv(a, b) ==
  IF b = 0 THEN (IF a = 0 THEN NaN ELSE Infinity)
  ELSE IF a % b = 0 THEN Num(a \div b)
  ELSE [n |-> a, d |-> b]

\* Math.floor
MathFloor(x) == IF x.d = 0 THEN x ELSE Num(x.n \div x.d)

\* ToInt32, the conversion the operators & and >> apply to their operand:
\* NaN and Infinity become 0, a finite value is truncated toward zero.  Every
\* integer the model holds lies within the signed 32-bit range, where the
\* reduction modulo 2^32 is the identity.
ToInt32(x) ==
  IF x.d = 0 THEN 0
  ELSE IF x.n >= 0 THEN x.n \div x.d
  ELSE 0 - ((0 - x.n) \div x.d)

\* ------------------------------------------------------------ blobs, parts

NoBlob == [size |-> 0, src |-> "", pad |-> 0]

CharsPart(s) == [kind |-> "chars", chars |-> s, bytes |-> <<>>, blob |-> NoBlob]
BytesPart(b) == [kind |-> "bytes", chars |-> "", bytes |-> b, blob |-> NoBlob]
BlobPart(b) == [kind |-> "blob", chars |-> "", bytes |-> <<>>, blob |-> b]

\* The number of bytes a part adds to the Blob built from it.
PartSize(p) ==
  CASE p.kind = "chars" -> Len(p.chars)
    [] p.kind = "bytes" -> Len(p.bytes)
    [] OTHER -> p.blob.size

RECURSIVE Starts(_, _, _, _)
\* The byte offsets at which parts lo .. hi of bb start, part lo starting at
\* base (the range is halved, which keeps the evaluation shallow).
Starts(bb, lo, hi, base) ==
  IF lo > hi THEN <<>>
  ELSE IF lo = hi THEN <<base>>
  ELSE
    LET mid == (lo + hi) \div 2
        left == Starts(bb, lo, mid, base)
    IN left \o Starts(bb, mid + 1, hi, left[Len(left)] + PartSize(bb[mid]))

\* The offset of every part of bb, and last the offset of the end.
Offsets(bb) ==
  IF bb = <<>> THEN <<0>>
  ELSE LET s == Starts(bb, 1, Len(bb), 0)
       IN Append(s, s[Len(s)] + PartSize(bb[Len(bb)]))

ByteLength(bb) == Offsets(bb)[Len(bb) + 1]

\* ------------------------------------------------------ record factories

\* The value of a property the source initialises to null.
Null == "null"

createAVIStruct ==
  [chRIFF |-> "RIFF", chFourCC |-> "AVI ", dwSize |-> Num(0), aData |-> Null,
   _order |-> <<"chRIFF", "dwSize", "chFourCC", "aData">>]

createAVIMainHeader ==
  [chFourCC |-> "avih", dwSize |-> Num(56),
   dwMicroSecPerFrame |-> Num(66666), dwMaxBytesPerSec |-> Num(1000),
   dwPaddingGranularity |-> Num(0), dwFlags |-> Num(AVIF_HASINDEX),
   dwTotalFrames |-> Num(1), dwInitialFrames |-> Num(0), dwStreams |-> Num(2),
   dwSuggestedBufferSize |-> Num(0), dwWidth |-> Num(10), dwHeight |-> Num(20),
   dwReserved1 |-> Num(0), dwReserved2 |-> Num(0), dwReserved3 |-> Num(0),
   dwReserved4 |-> Num(0),
   _order |-> <<"chFourCC", "dwSize",
                "dwMicroSecPerFrame", "dwMaxBytesPerSec", "dwPaddingGranularity",
                "dwFlags", "dwTotalFrames", "dwInitialFrames", "dwStreams",
                "dwSuggestedBufferSize", "dwWidth", "dwHeight", "dwReserved1",
                "dwReserved2", "dwReserved3", "dwReserved4">>]

createHeaderLIST ==
  [chLIST |-> "LIST", dwSize |-> Num(0), chFourCC |-> "hdrl", aData |-> Null,
   _order |-> <<"chLIST", "dwSize", "chFourCC", "aData">>]

createMoviLIST ==
  [chLIST |-> "LIST", dwSize |-> Num(0), chFourCC |-> "movi", aStreams |-> Null,
   _order |-> <<"chLIST", "dwSize", "chFourCC", "aStreams">>]

createMoviStream ==
  [chType |-> "00dc", dwSize |-> Num(0), handler |-> Null,
   _order |-> <<"chType", "dwSize", "handler">>]

createStreamHeaderLIST ==
  [chLIST |-> "LIST", dwSize |-> Num(0), chFourCC |-> "strl", aList |-> Null,
   _order |-> <<"chLIST", "dwSize", "chFourCC", "aList">>]

createStreamFormat ==
  [chFourCC |-> "strf", dwSize |-> Num(0), sContent |-> Null,
   _order |-> <<"chFourCC", "dwSize", "sContent">>]

createStreamHeader ==
  [chFourCC |-> "strh", dwSize |-> Num(56), chTypeFourCC |-> "vids",
   chHandlerFourCC |-> "mjpg", dwFlags |-> Num(0), wPriority |-> Num(0),
   wLanguage |-> Num(0), dwInitialFrames |-> Num(0), dwScale |-> Num(66666),
   dwRate |-> Num(RateBase), dwStart |-> Num(0), dwLength |-> Num(0),
   dwSuggestedBufferSize |-> Num(0), dwQuality |-> Num(10000),
   dwSampleSize |-> Num(0), wLeft |-> Num(0), wTop |-> Num(0),
   wRight |-> Num(0), wBottom |-> Num(0),
   _order |-> <<"chFourCC", "dwSize", "chTypeFourCC", "chHandlerFourCC",
                "dwFlags", "wPriority", "wLanguage", "dwInitialFrames", "dwScale",
                "dwRate", "dwStart", "dwLength", "dwSuggestedBufferSize",
                "dwQuality", "dwSampleSize", "wLeft", "wTop", "wRight", "wBottom">>]

createBitmapHeader ==
  [dwSize |-> Num(40), dwWidth |-> Num(10), dwHeight |-> Num(20),
   wPlanes |-> Num(1), wBitcount |-> Num(24), chCompression |-> "MJPG",
   dwSizeImage |-> Num(600), dwXPelsPerMeter |-> Num(0),
   dwYPelsPerMeter |-> Num(0), dwClrUsed |-> Num(0), dwClrImportant |-> Num(0),
   _order |-> <<"dwSize", "dwWidth", "dwHeight", "wPlanes", "wBitcount",
                "chCompression", "dwSizeImage", "dwXPelsPerMeter",
                "dwYPelsPerMeter", "dwClrUsed", "dwClrImportant">>]

createWavHeader ==
  [wFormatTag |-> Num(1), wnChannels |-> Num(0), dwnSamplesPerSec |-> Num(0),
   dwnAvgBytesPerSec |-> Num(0), wnBlockAlign |-> Num(2),
   wBitsPerSample |-> Num(16), wcbSize |-> Num(0),
   _order |-> <<"wFormatTag", "wnChannels", "dwnSamplesPerSec",
                "dwnAvgBytesPerSec", "wnBlockAlign", "wBitsPerSample", "wcbSize">>]

\* ------------------------------------------------------- structured writer

\* fieldName.charAt(0), for the field names the records of the model use.
charAt0(fieldName) ==
  CASE fieldName \in {"bFlag"} -> "b"
    [] fieldName \in {"chRIFF", "chFourCC", "chLIST", "chType", "chId",
                      "chTypeFourCC", "chHandlerFourCC", "chCompression"} -> "c"
    [] fieldName \in {"dwSize", "dwFlags", "dwOffset", "dwLength",
                      "dwMicroSecPerFrame", "dwMaxBytesPerSec",
                      "dwPaddingGranularity", "dwTotalFrames", "dwInitialFrames",
                      "dwStreams", "dwSuggestedBufferSize", "dwWidth", "dwHeight",
                      "dwReserved1", "dwReserved2", "dwReserved3", "dwReserved4",
                      "dwScale", "dwRate", "dwStart", "dwQuality", "dwSampleSize",
                      "dwSizeImage", "dwXPelsPerMeter", "dwYPelsPerMeter",
                      "dwClrUsed", "dwClrImportant", "dwnSamplesPerSec",
                      "dwnAvgBytesPerSec"} -> "d"
    [] fieldName \in {"wPriority", "wLanguage", "wLeft", "wTop", "wRight",
                      "wBottom", "wPlanes", "wBitcount", "wFormatTag",
                      "wnChannels", "wnBlockAlign", "wBitsPerSample",
                      "wcbSize"} -> "w"
    [] fieldName \in {"WMarker"} -> "W"
    [] fieldName \in {"aData", "aStreams", "aList"} -> "a"
    [] fieldName \in {"rawData"} -> "r"
    [] fieldName \in {"sContent"} -> "s"
    [] fieldName \in {"handler"} -> "h"
    [] fieldName \in {"xExtra"} -> "x"
    [] fieldName \in {"quality"} -> "q"
    [] OTHER -> "_"

\* The bytes the writer stores for each scalar type (a Uint8Array element
\* keeps the low 8 bits of the integer assigned to it).
ByteOf(val) == <<ToInt32(val) % 256>>
DwordOf(val) ==
  <<ToInt32(val) % 256, (ToInt32(val) \div 256) % 256,
    (ToInt32(val) \div 65536) % 256, (ToInt32(val) \div 16777216) % 256>>
WordOf(val) == <<ToInt32(val) % 256, (ToInt32(val) \div 256) % 256>>
WordBEOf(val) == <<(ToInt32(val) \div 256) % 256, ToInt32(val) % 256>>

\* The outcome of writing into an array: the parts pushed, in order, and the
\* exception that ended the writing (thrown is "" when none did; field names
\* the field an "Unknown data type: " message ends with).
Wrote(parts) == [bb |-> parts, thrown |-> "", field |-> ""]
Threw(parts, msg, fieldName) == [bb |-> parts, thrown |-> msg, field |-> fieldName]

MissingOrder == "Structured data must have '_order'"
UnknownType == "Unknown data type: "

RECURSIVE Concat(_, _, _)
\* ss[lo] \o .. \o ss[hi] (the range is halved, which keeps the evaluation
\* shallow).
Concat(ss, lo, hi) ==
  IF lo > hi THEN <<>>
  ELSE IF lo = hi THEN ss[lo]
  ELSE LET mid == (lo + hi) \div 2
       IN Concat(ss, lo, mid) \o Concat(ss, mid + 1, hi)

\* The outcome of a loop whose i-th pass has outcome rs[i]: a pass runs only
\* when none before it threw, and its exception ends the loop.
InOrder(rs) ==
  LET bad == {i \in 1 .. Len(rs) : rs[i].thrown # ""}
      last == IF bad = {} THEN Len(rs) ELSE CHOOSE i \in bad : \A j \in bad : i <= j
  IN [bb |-> Concat([i \in 1 .. last |-> rs[i].bb], 1, last),
      thrown |-> IF bad = {} THEN "" ELSE rs[last].thrown,
      field |-> IF bad = {} THEN "" ELSE rs[last].field]

\* The test of s._order at the head of appendStruct.
hasOrder(s) == "_order" \in DOMAIN s

\* A default case that leaves the field out.
unknownField_skipped(fieldName) == Wrote(<<>>)

\* The switch's default case.
unknownField(fieldName) == Threw(<<>>, UnknownType, fieldName)

RECURSIVE written(_)
\* What one call appendStruct(bb, s, nest) pushes onto bb and throws (nest
\* only indents the log lines written when Verbose is set, which it never is).
written(s) ==
  IF ~hasOrder(s) THEN Threw(<<>>, MissingOrder, "")
  ELSE
    InOrder([i \in 1 .. Len(s._order) |->
      LET fieldName == s._order[i]
          val == s[fieldName]
          c == charAt0(fieldName)
      IN CASE c = "b" -> Wrote(<<BytesPart(ByteOf(val))>>)
           [] c = "c" -> Wrote(<<CharsPart(val)>>)
           [] c = "d" -> Wrote(<<BytesPart(DwordOf(val))>>)
           [] c = "w" -> Wrote(<<BytesPart(WordOf(val))>>)
           [] c = "W" -> Wrote(<<BytesPart(WordBEOf(val))>>)
           [] c = "a" -> InOrder([j \in 1 .. Len(val) |-> written(val[j])])
           [] c = "r" -> Wrote(<<BlobPart(val)>>)
           [] c = "s" -> written(val)
           [] c = "h" -> Wrote(<<BlobPart(val)>>)
           [] OTHER -> unknownField(fieldName)])

\* MJPEGBuilder.appendStruct: bb as the call leaves it, and what it threw.
appendStruct(bb, s) == LET r == written(s) IN [r EXCEPT !.bb = bb \o @]

\* ------------------------------------------------------------- the builder

VARIABLES
  movieDesc,         \* this.movieDesc: w, h, fps, videoStreamSize, maxJPEGSize
  frameList,         \* this.frameList: the frames' Blobs, in the order added
  audioBlob,         \* this.audioBlob, undefined until addAudio
  audioNumChannels,  \* this.audioNumChannels, undefined until addAudio
  audioSampleRate,   \* this.audioSampleRate, undefined until addAudio
  avi,               \* this.avi
  headerLIST,        \* this.headerLIST
  moviLIST,          \* this.moviLIST
  ret,               \* what the last call returned or threw
  lastAudio,         \* history: the arguments of the latest addAudio call
  audioReplaced,     \* history: an addAudio call followed an earlier one
  _audio,            \* CamRecorder this._audio: record sound as well
  _frames,           \* CamRecorder this._frames, undefined until start
  _rec,              \* CamRecorder this._rec: the id of the interval start set last
  timers,            \* the ids of the intervals set and not cleared
  exports,           \* the stop calls whose exportRaw callback is yet to run
  starts,            \* the number of start calls (the id of the latest interval)
  stops,             \* the number of stop calls
  atStop,            \* history: this._frames as each stop call found it
  lastStop,          \* history: the latest stop call, while no start followed it
  cbStop             \* history: the stop call whose cb received the blob in ret

vars == <<movieDesc, frameList, audioBlob, audioNumChannels, audioSampleRate,
          avi, headerLIST, moviLIST, ret, lastAudio, audioReplaced,
          _audio, _frames, _rec, timers, exports, starts, stops, atStop,
          lastStop, cbStop>>

\* The recorder: its fields, the host's timers and pending callbacks, and
\* the history kept of its calls.
recorder == <<_audio, _frames, _rec, timers, exports, starts, stops, atStop,
              lastStop, cbStop>>

history == <<lastAudio, audioReplaced>>

accumulated == <<movieDesc, frameList, audioBlob, audioNumChannels, audioSampleRate>>

\* Results of a call.
Undefined == [kind |-> "undefined", parts |-> <<>>, type |-> "", thrown |-> "", field |-> ""]
Returned(parts, type) ==
  [kind |-> "blob", parts |-> parts, type |-> type, thrown |-> "", field |-> ""]
Thrown(msg, fieldName) ==
  [kind |-> "throw", parts |-> <<>>, type |-> "", thrown |-> msg, field |-> fieldName]

\* ------------------------------------------------------------------ inputs

\* The frames handed to addFrame: data URLs, each known by the binary string
\* atob decodes it to (a label of its bytes, and their number).
DataURLs ==
  { [src |-> "jpegA", len |-> 100], [src |-> "jpegB", len |-> 149],
    [src |-> "jpegC", len |-> 120] }

\* The arguments of addAudio: the PCM Blob, channels, sample rate.
AudioArgs ==
  { [blob |-> <<[size |-> 4000, src |-> "pcmA", pad |-> 0]>>, numChannels |-> 1, sampleRate |-> 8000],
    [blob |-> <<[size |-> 6, src |-> "pcmB", pad |-> 0]>>, numChannels |-> 2, sampleRate |-> 44100] }

\* The arguments of setup (a builder that was never set up has fps = 0).
SetupArgs ==
  { [w |-> 320, h |-> 240, fps |-> 10], [w |-> 320, h |-> 240, fps |-> 15] }

\* ------------------------------------------------------------- operations

\* A recorder on which nothing was called yet.
recorderIdle ==
  /\ _frames = <<>>
  /\ _rec = <<>>
  /\ timers = {}
  /\ exports = {}
  /\ starts = 0
  /\ stops = 0
  /\ atStop = [k \in 1 .. MaxStops |-> <<>>]
  /\ lastStop = <<>>
  /\ cbStop = <<>>

Init ==
  /\ _audio = FALSE
  /\ recorderIdle
  /\ movieDesc = [w |-> 0, h |-> 0, fps |-> 0, videoStreamSize |-> 0, maxJPEGSize |-> 0]
  /\ avi = createAVIStruct
  /\ headerLIST = createHeaderLIST
  /\ moviLIST = createMoviLIST
  /\ frameList = <<>>
  /\ audioBlob = <<>>
  /\ audioNumChannels = <<>>
  /\ audioSampleRate = <<>>
  /\ ret = Undefined
  /\ lastAudio = <<>>
  /\ audioReplaced = FALSE

Setup(frameWidth, frameHeight, fps) ==
  /\ movieDesc' = [movieDesc EXCEPT !.w = frameWidth, !.h = frameHeight, !.fps = fps]
  /\ ret' = Undefined
  /\ UNCHANGED <<frameList, audioBlob, audioNumChannels, audioSampleRate,
                 avi, headerLIST, moviLIST, history, recorder>>

\* A frame Blob of the decoded bytes alone.
FrameBlob_unpadded(u) == [size |-> u.len, src |-> u.src, pad |-> 0]

\* The Blob addFrame makes of the data URL u: the decoded bytes, and one zero
\* byte more when their number is odd.
FrameBlob(u) ==
  LET len == IF u.len % 2 # 0 THEN u.len + 1 ELSE u.len
  IN [size |-> len, src |-> u.src, pad |-> len - u.len]

\* addFrame on a builder with descriptor desc and frame list frames.
addFrame(desc, frames, u) ==
  LET blob == FrameBlob(u)
      bsize == blob.size
  IN [frameList |-> Append(frames, blob),
      movieDesc |->
        [desc EXCEPT
           !.videoStreamSize = @ + bsize,
           !.maxJPEGSize = IF @ < bsize THEN bsize ELSE @]]

AddFrame(u) ==
  /\ Len(frameList) < MaxFrames
  /\ LET r == addFrame(movieDesc, frameList, u)
     IN /\ frameList' = r.frameList
        /\ movieDesc' = r.movieDesc
  /\ ret' = Undefined
  /\ UNCHANGED <<audioBlob, audioNumChannels, audioSampleRate,
                 avi, headerLIST, moviLIST, history, recorder>>

\* addAudio storing a track only while the builder has none.
addAudio_keepFirst(blob, numChannels, sampleRate) ==
  IF audioBlob = <<>>
  THEN /\ audioBlob' = blob
       /\ audioNumChannels' = <<numChannels>>
       /\ audioSampleRate' = <<sampleRate>>
  ELSE UNCHANGED <<audioBlob, audioNumChannels, audioSampleRate>>

addAudio(blob, numChannels, sampleRate) ==
  /\ audioBlob' = blob
  /\ audioNumChannels' = <<numChannels>>
  /\ audioSampleRate' = <<sampleRate>>

AddAudio(blob, numChannels, sampleRate) ==
  /\ addAudio(blob, numChannels, sampleRate)
  /\ ret' = Undefined
  /\ lastAudio' = <<[blob |-> blob, numChannels |-> numChannels, sampleRate |-> sampleRate]>>
  /\ audioReplaced' = (lastAudio # <<>>)
  /\ UNCHANGED <<movieDesc, frameList, avi, headerLIST, moviLIST, recorder>>

\* ------------------------------------------------------------------ finish

addVideoStreamData(list, blob) ==
  LET stream == [createMoviStream EXCEPT !.dwSize = Num(blob.size), !.handler = blob]
  IN [list |-> Append(list, stream), ret |-> IntOf(stream.dwSize) + 8]

addAudioStreamData(list, blob) ==
  LET stream == [createMoviStream EXCEPT
                   !.chType = "01wb", !.dwSize = Num(blob.size), !.handler = blob]
  IN [list |-> Append(list, stream), ret |-> IntOf(stream.dwSize) + 8]

IndexEntryOrder == <<"chId", "dwFlags", "dwOffset", "dwLength">>

\* An index entry whose length counts the chunk's 8 header bytes too.
indexEntry_whole(chId, frOffset, frsize) ==
  [chId |-> chId, dwFlags |-> Num(AVIIF_KEYFRAME), dwOffset |-> Num(frOffset),
   dwLength |-> Num(frsize), _order |-> IndexEntryOrder]

\* The index entry pushed for a chunk of frsize bytes (header included) that
\* starts at frOffset.
indexEntry(chId, frOffset, frsize) ==
  [chId |-> chId, dwFlags |-> Num(AVIIF_KEYFRAME), dwOffset |-> Num(frOffset),
   dwLength |-> Num(frsize - 8), _order |-> IndexEntryOrder]

\* The locals of finish before its first loop.
streamsStart ==
  [aStreams |-> <<>>, frameIndices |-> <<>>, frOffset |-> 4, streamSize |-> 0]

RECURSIVE videoLoop(_, _, _)
\* The loop over the frames, from frame i on (i counts from 1).
videoLoop(frames, i, st) ==
  IF i > Len(frames) THEN st
  ELSE
    LET a == addVideoStreamData(st.aStreams, frames[i])
        frsize == a.ret
    IN videoLoop(frames, i + 1,
         [aStreams |-> a.list,
          frameIndices |-> Append(st.frameIndices, indexEntry("00dc", st.frOffset, frsize)),
          frOffset |-> st.frOffset + frsize,
          streamSize |-> st.streamSize + frsize])

\* An audio chunk put in front of the video chunks.
audioChunk_first(audio, st) ==
  IF audio # <<>> THEN
    LET a == addAudioStreamData(<<>>, audio[1])
        frsize == a.ret
    IN [aStreams |-> a.list \o st.aStreams,
        frameIndices |-> Append(st.frameIndices, indexEntry("01wb", st.frOffset, frsize)),
        frOffset |-> st.frOffset,
        streamSize |-> st.streamSize + frsize]
  ELSE st

\* The audio chunk, when this.audioBlob is set.
audioChunk(audio, st) ==
  IF audio # <<>> THEN
    LET a == addAudioStreamData(st.aStreams, audio[1])
        frsize == a.ret
    IN [aStreams |-> a.list,
        frameIndices |-> Append(st.frameIndices, indexEntry("01wb", st.frOffset, frsize)),
        frOffset |-> st.frOffset,
        streamSize |-> st.streamSize + frsize]
  ELSE st

\* A movie list whose size is added to the size it had.
moviListOf_adding(m, st) ==
  [m EXCEPT !.aStreams = st.aStreams, !.dwSize = Num(IntOf(@) + st.streamSize + 4)]

\* this.moviLIST after the chunks are collected.
moviListOf(m, st) ==
  [m EXCEPT !.aStreams = st.aStreams, !.dwSize = Num(st.streamSize + 4)]

frameDuOf(desc) == MathFloor(JSDiv(RateBase, desc.fps))

videoStrh(desc, frames) ==
  [createStreamHeader EXCEPT
     !.wRight = Num(desc.w), !.wBottom = Num(desc.h),
     !.dwLength = Num(Len(frames)), !.dwScale = frameDuOf(desc)]

videoStrf(desc) ==
  LET bi == [createBitmapHeader EXCEPT
               !.dwWidth = Num(desc.w), !.dwHeight = Num(desc.h),
               !.dwSizeImage = Num(3 * desc.w * desc.h)]
  IN [createStreamFormat EXCEPT !.dwSize = bi.dwSize, !.sContent = bi]

videoStrl(strh, strf) ==
  [createStreamHeaderLIST EXCEPT
     !.dwSize = Num(4 + (IntOf(strh.dwSize) + 8) + (IntOf(strf.dwSize) + 8)),
     !.aList = <<strh, strf>>]

\* Stands for the four NUL characters of the audio stream's handler code.
FourNUL == "~~~~"

\* An audio stream header whose length is not divided by the frame rate.
audioStrh_undivided(desc, frameCount, numChannels, sampleRate) ==
  [createStreamHeader EXCEPT
     !.chTypeFourCC = "auds", !.chHandlerFourCC = FourNUL,
     !.dwScale = Num(1), !.dwRate = Num(numChannels * sampleRate),
     !.dwLength = Num(numChannels * sampleRate * frameCount),
     !.dwSampleSize = Num(2), !.wRight = Num(0), !.wBottom = Num(0)]

audioStrh(desc, frameCount, numChannels, sampleRate) ==
  [createStreamHeader EXCEPT
     !.chTypeFourCC = "auds", !.chHandlerFourCC = FourNUL,
     !.dwScale = Num(1), !.dwRate = Num(numChannels * sampleRate),
     !.dwLength = JSDiv(numChannels * sampleRate * frameCount, desc.fps),
     !.dwSampleSize = Num(2), !.wRight = Num(0), !.wBottom = Num(0)]

audioStrf(numChannels, sampleRate) ==
  LET wh == [createWavHeader EXCEPT
               !.wnChannels = Num(numChannels),
               !.dwnSamplesPerSec = Num(sampleRate),
               !.dwnAvgBytesPerSec = Num(sampleRate * numChannels)]
  IN [createStreamFormat EXCEPT !.dwSize = Num(18), !.sContent = wh]

\* strl_audio; strh is the video stream's header, whose size the code uses.
audioStrl(strh, strh_audio, strf_audio) ==
  [createStreamHeaderLIST EXCEPT
     !.dwSize = Num(4 + (IntOf(strh.dwSize) + 8) + (IntOf(strf_audio.dwSize) + 8)),
     !.aList = <<strh_audio, strf_audio>>]

\* A main header that keeps the frame count of createAVIMainHeader.
mainHeader_oneFrame(desc, frames) ==
  [createAVIMainHeader EXCEPT
     !.dwMicroSecPerFrame = frameDuOf(desc),
     !.dwMaxBytesPerSec = Num(desc.maxJPEGSize * desc.fps),
     !.dwWidth = Num(desc.w), !.dwHeight = Num(desc.h),
     !.dwSuggestedBufferSize = Num(0)]

mainHeader(desc, frames) ==
  [createAVIMainHeader EXCEPT
     !.dwMicroSecPerFrame = frameDuOf(desc),
     !.dwMaxBytesPerSec = Num(desc.maxJPEGSize * desc.fps),
     !.dwTotalFrames = Num(Len(frames)),
     !.dwWidth = Num(desc.w), !.dwHeight = Num(desc.h),
     !.dwSuggestedBufferSize = Num(0)]

\* hdrlSize with the audio stream list left out of the sum.
hdrlSizeOf_videoOnly(avih, strl, strl_audio) ==
  4 + (IntOf(avih.dwSize) + 8) + (IntOf(strl.dwSize) + 8)

\* hdrlSize; strl_audio is <<>> when there is no audio.
hdrlSizeOf(avih, strl, strl_audio) ==
  4 + (IntOf(avih.dwSize) + 8) + (IntOf(strl.dwSize) + 8)
    + (IF strl_audio # <<>> THEN IntOf(strl_audio[1].dwSize) + 8 ELSE 0)

\* A header list that makes the main header count the stream lists it holds.
headerListOf_countingStreams(hl, avih, strl, strl_audio) ==
  LET counted == [avih EXCEPT !.dwStreams = Num(1 + Len(strl_audio))]
  IN [hl EXCEPT
        !.dwSize = Num(hdrlSizeOf(avih, strl, strl_audio)),
        !.aData = IF strl_audio # <<>> THEN <<counted, strl, strl_audio[1]>>
                  ELSE <<counted, strl>>]

headerListOf(hl, avih, strl, strl_audio) ==
  [hl EXCEPT
     !.dwSize = Num(hdrlSizeOf(avih, strl, strl_audio)),
     !.aData = IF strl_audio # <<>> THEN <<avih, strl, strl_audio[1]>>
               ELSE <<avih, strl>>]

indexChunkOf(frameIndices) ==
  [chFourCC |-> "idx1", dwSize |-> Num(Len(frameIndices) * 16),
   aData |-> frameIndices, _order |-> <<"chFourCC", "dwSize", "aData">>]

aviOf(a, hl, ml, indexChunk) ==
  LET aviSize == (8 + IntOf(hl.dwSize)) + (8 + IntOf(ml.dwSize))
                 + (8 + IntOf(indexChunk.dwSize))
  IN [a EXCEPT !.dwSize = Num(aviSize + 4), !.aData = <<hl, ml, indexChunk>>]

\* The end of finish, for the root record a: the writer runs on a fresh array,
\* and the Blob is made only when the writer returns.
serialize(a) ==
  LET r == appendStruct(<<>>, a)
  IN IF r.thrown # "" THEN Thrown(r.thrown, r.field)
     ELSE Returned(r.bb, "video/avi")

\* What finish assigns in a builder holding these fields: the three records
\* of the builder and the result.
finishOf(desc, frames, audio, numChannels, sampleRate, a0, hl0, ml0) ==
  LET frameCount == Len(frames)
      st == audioChunk(audio, videoLoop(frames, 1, streamsStart))
      ml == moviListOf(ml0, st)
      strh == videoStrh(desc, frames)
      strf == videoStrf(desc)
      strl == videoStrl(strh, strf)
      strl_audio ==
        IF audio # <<>> THEN
          <<audioStrl(strh,
                      audioStrh(desc, frameCount, numChannels[1], sampleRate[1]),
                      audioStrf(numChannels[1], sampleRate[1]))>>
        ELSE <<>>
      avih == mainHeader(desc, frames)
      hl == headerListOf(hl0, avih, strl, strl_audio)
      a == aviOf(a0, hl, ml, indexChunkOf(st.frameIndices))
  IN [moviLIST |-> ml, headerLIST |-> hl, avi |-> a, ret |-> serialize(a)]

finishBuild ==
  LET f == finishOf(movieDesc, frameList, audioBlob, audioNumChannels,
                    audioSampleRate, avi, headerLIST, moviLIST)
  IN /\ moviLIST' = f.moviLIST
     /\ headerLIST' = f.headerLIST
     /\ avi' = f.avi
     /\ ret' = f.ret

\* A finish that hands its frames over to the output and forgets them.
Finish_draining ==
  /\ finishBuild
  /\ frameList' = <<>>
  /\ UNCHANGED <<movieDesc, audioBlob, audioNumChannels, audioSampleRate,
                 history, recorder>>

Finish == finishBuild /\ UNCHANGED <<accumulated, history, recorder>>

Next ==
  \/ \E a \in SetupArgs : Setup(a.w, a.h, a.fps)
  \/ \E u \in DataURLs : AddFrame(u)
  \/ \E a \in AudioArgs : AddAudio(a.blob, a.numChannels, a.sampleRate)
  \/ Finish

Spec == Init /\ [][Next]_vars

\* ------------------------------------------------- the writer on its own
\* The end of finish run on any root record: records that lack "_order" or
\* name a field of no known type, at the root, in a nested record or in an
\* array, beside well-formed ones.

GoodChild ==
  [dwSize |-> Num(258), chCompression |-> "MJPG",
   _order |-> <<"dwSize", "chCompression">>]
NoOrderChild == [dwSize |-> Num(1), chCompression |-> "MJPG"]
UnknownChild ==
  [dwSize |-> Num(1), quality |-> Num(3), _order |-> <<"dwSize", "quality">>]

WriterChildren == {GoodChild, NoOrderChild, UnknownChild}
WriterLists ==
  {<<>>, <<GoodChild>>, <<GoodChild, NoOrderChild>>, <<UnknownChild, GoodChild>>}
WriterFields ==
  {"chFourCC", "dwSize", "wPlanes", "WMarker", "bFlag", "rawData", "handler",
   "sContent", "aData", "xExtra", "quality"}
WriterOrders == UNION {[1 .. n -> WriterFields] : n \in 0 .. MaxOrder}

WriterRecord(order, child, list) ==
  [chFourCC |-> "AVI ", dwSize |-> Num(258), wPlanes |-> Num(513),
   WMarker |-> Num(513), bFlag |-> Num(263),
   rawData |-> [size |-> 5, src |-> "raw", pad |-> 0],
   handler |-> [size |-> 6, src |-> "jpegA", pad |-> 0],
   sContent |-> child, aData |-> list, xExtra |-> Num(1), quality |-> Num(3),
   _order |-> order]

WriterInputs ==
  {WriterRecord(o, c, l) : o \in WriterOrders, c \in WriterChildren, l \in WriterLists}
  \cup {NoOrderChild}

InitWriter ==
  /\ _audio = FALSE
  /\ recorderIdle
  /\ movieDesc = [w |-> 0, h |-> 0, fps |-> 0, videoStreamSize |-> 0, maxJPEGSize |-> 0]
  /\ avi \in WriterInputs
  /\ headerLIST = createHeaderLIST
  /\ moviLIST = createMoviLIST
  /\ frameList = <<>>
  /\ audioBlob = <<>>
  /\ audioNumChannels = <<>>
  /\ audioSampleRate = <<>>
  /\ ret = Undefined
  /\ lastAudio = <<>>
  /\ audioReplaced = FALSE

\* The writer run on this.avi, and the Blob made of what it wrote.
WriteRoot ==
  /\ ret' = serialize(avi)
  /\ UNCHANGED <<accumulated, history, avi, headerLIST, moviLIST, recorder>>

NextWriter == WriteRoot

SpecWriter == InitWriter /\ [][NextWriter]_vars

\* ------------------------------------------------------------ the recorder
\* CamRecorder of src/js/camrecorder.js where the host has no MediaRecorder:
\* start and stop are called in any order, the interval timers start sets
\* tick, and the callback handed to exportRaw runs in a later turn.

\* The frames a tick can capture from the canvas.
Captures == {u \in DataURLs : u.src \in {"jpegA", "jpegB"}}

RECURSIVE framesAdded(_, _, _, _)
\* The loop of stop over this._frames, from frame i on, on a builder with
\* descriptor desc and frame list frames.
framesAdded(desc, frames, urls, i) ==
  IF i > Len(urls) THEN [frameList |-> frames, movieDesc |-> desc]
  ELSE LET r == addFrame(desc, frames, urls[i])
       IN framesAdded(r.movieDesc, r.frameList, urls, i + 1)

\* The builder stop makes, set up with the recorder's size and frame rate.
builderSetUp ==
  [w |-> VIDEO_WIDTH, h |-> VIDEO_HEIGHT, fps |-> VIDEO_FPS,
   videoStreamSize |-> 0, maxJPEGSize |-> 0]

\* The AVI of this._frames built for stop call k, with the sound of data
\* (none when data is empty), and handed to cb.  Where start was never called
\* this._frames is undefined and reading its length throws.
BuildAVI(k, data) ==
  IF _frames = <<>>
  THEN /\ movieDesc' = builderSetUp
       /\ frameList' = <<>>
       /\ audioBlob' = <<>>
       /\ audioNumChannels' = <<>>
       /\ audioSampleRate' = <<>>
       /\ avi' = createAVIStruct
       /\ headerLIST' = createHeaderLIST
       /\ moviLIST' = createMoviLIST
       /\ ret' = Thrown("TypeError", "")
       /\ lastAudio' = <<>>
       /\ audioReplaced' = FALSE
       /\ cbStop' = <<>>
  ELSE
    LET added == framesAdded(builderSetUp, <<>>, _frames[1], 1)
        ab == IF data = <<>> THEN <<>> ELSE data[1].blob
        nc == IF data = <<>> THEN <<>> ELSE <<data[1].numChannels>>
        sr == IF data = <<>> THEN <<>> ELSE <<data[1].sampleRate>>
        f == finishOf(added.movieDesc, added.frameList, ab, nc, sr,
                      createAVIStruct, createHeaderLIST, createMoviLIST)
    IN /\ movieDesc' = added.movieDesc
       /\ frameList' = added.frameList
       /\ audioBlob' = ab
       /\ audioNumChannels' = nc
       /\ audioSampleRate' = sr
       /\ avi' = f.avi
       /\ headerLIST' = f.headerLIST
       /\ moviLIST' = f.moviLIST
       /\ ret' = f.ret
       /\ lastAudio' = data
       /\ audioReplaced' = FALSE
       /\ cbStop' = <<k>>

builder == <<movieDesc, frameList, audioBlob, audioNumChannels, audioSampleRate,
             avi, headerLIST, moviLIST, ret, lastAudio, audioReplaced>>

InitCam ==
  /\ _audio \in BOOLEAN
  /\ recorderIdle
  /\ movieDesc = [w |-> 0, h |-> 0, fps |-> 0, videoStreamSize |-> 0, maxJPEGSize |-> 0]
  /\ avi = createAVIStruct
  /\ headerLIST = createHeaderLIST
  /\ moviLIST = createMoviLIST
  /\ frameList = <<>>
  /\ audioBlob = <<>>
  /\ audioNumChannels = <<>>
  /\ audioSampleRate = <<>>
  /\ ret = Undefined
  /\ lastAudio = <<>>
  /\ audioReplaced = FALSE

\* start: a new frame list and a new interval, whose id replaces this._rec.
CamStart ==
  /\ starts < MaxStarts
  /\ starts' = starts + 1
  /\ _frames' = << <<>> >>
  /\ _rec' = <<starts + 1>>
  /\ timers' = timers \cup {starts + 1}
  /\ lastStop' = <<>>
  /\ UNCHANGED <<builder, _audio, exports, stops, atStop, cbStop>>

\* A tick of the interval id: the canvas as a JPEG data URL u, pushed onto
\* what this._frames is at the time.
CamTick(id, u) ==
  /\ id \in timers
  /\ Len(_frames[1]) < MaxTicks
  /\ _frames' = <<Append(_frames[1], u)>>
  /\ UNCHANGED <<builder, _audio, _rec, timers, exports, starts, stops, atStop,
                 lastStop, cbStop>>

\* stop(cb): clears the interval this._rec names; with sound it asks for the
\* samples and returns, without sound it builds the AVI and calls cb at once.
CamStop ==
  /\ stops < MaxStops
  /\ stops' = stops + 1
  /\ timers' = timers \ {_rec[i] : i \in 1 .. Len(_rec)}
  /\ atStop' = [atStop EXCEPT ![stops + 1] = _frames]
  /\ lastStop' = <<stops + 1>>
  /\ IF _audio
     THEN /\ exports' = exports \cup {stops + 1}
          /\ UNCHANGED <<builder, cbStop>>
     ELSE /\ BuildAVI(stops + 1, <<>>)
          /\ UNCHANGED exports
  /\ UNCHANGED <<_audio, _frames, _rec, starts>>

\* The callback stop call k handed to exportRaw, run with the samples data.
ExportRawDone(k, data) ==
  /\ k \in exports
  /\ exports' = exports \ {k}
  /\ BuildAVI(k, <<data>>)
  /\ UNCHANGED <<_audio, _frames, _rec, timers, starts, stops, atStop, lastStop>>

NextCam ==
  \/ CamStart
  \/ \E id \in 1 .. MaxStarts, u \in Captures : CamTick(id, u)
  \/ CamStop
  \/ \E k \in 1 .. MaxStops, data \in AudioArgs : ExportRawDone(k, data)

SpecCam == InitCam /\ [][NextCam]_vars

\* ------------------------------------------------- reading an output back
\* The output is read the way a RIFF parser reads it: by tags, declared sizes
\* and the byte offsets the AVI layout gives the header fields.  Nothing here
\* looks at the records the output was written from.

Built == ret.kind = "blob"
out == ret.parts

DwordValue(p) ==
  p.bytes[1] + 256 * p.bytes[2] + 65536 * p.bytes[3] + 16777216 * p.bytes[4]
WordValue(p) == p.bytes[1] + 256 * p.bytes[2]

IsTag(p) == p.kind = "chars" /\ Len(p.chars) = 4
IsDword(p) == p.kind = "bytes" /\ Len(p.bytes) = 4
IsWord(p) == p.kind = "bytes" /\ Len(p.bytes) = 2

\* The index of the part that starts n bytes after part k starts, given the
\* parts' offsets; 0 when no part starts there.
Skip(offs, k, n) ==
  LET hit == {j \in k .. Len(offs) : offs[j] = offs[k] + n}
  IN IF hit = {} THEN 0 ELSE CHOOSE j \in hit : \A x \in hit : j <= x

Failed == [ok |-> FALSE, ids |-> <<>>]

RECURSIVE ParseChunks(_, _, _, _, _)
\* Parts i .. stop-1 of bb read as a sequence of chunks at nesting depth: each
\* is a tag and a size followed by exactly size bytes, and the bytes of a
\* RIFF or LIST chunk are a form type followed by chunks.  ids lists the
\* chunks in the order met: <<tag, form type, depth>>.
ParseChunks(bb, offs, i, stop, depth) ==
  IF i = stop THEN [ok |-> TRUE, ids |-> <<>>]
  ELSE IF i + 1 >= stop \/ ~IsTag(bb[i]) \/ ~IsDword(bb[i + 1]) THEN Failed
  ELSE
    LET end == Skip(offs, i + 2, DwordValue(bb[i + 1]))
    IN IF end = 0 \/ end > stop THEN Failed
       ELSE IF bb[i].chars \in {"RIFF", "LIST"} THEN
         IF end < i + 3 \/ ~IsTag(bb[i + 2]) THEN Failed
         ELSE
           LET inner == ParseChunks(bb, offs, i + 3, end, depth + 1)
               rest == ParseChunks(bb, offs, end, stop, depth)
           IN IF inner.ok /\ rest.ok
              THEN [ok |-> TRUE,
                    ids |-> <<<<bb[i].chars, bb[i + 2].chars, depth>>>>
                            \o inner.ids \o rest.ids]
              ELSE Failed
       ELSE
         LET rest == ParseChunks(bb, offs, end, stop, depth)
         IN IF rest.ok
            THEN [ok |-> TRUE, ids |-> <<<<bb[i].chars, "", depth>>>> \o rest.ids]
            ELSE Failed

Reparse(bb) == ParseChunks(bb, Offsets(bb), 1, Len(bb) + 1, 0)

\* The members of a set of numbers, in ascending order.
Ascending(S) ==
  [j \in 1 .. Cardinality(S) |->
     CHOOSE k \in S : Cardinality({x \in S : x < k}) = j - 1]

\* The indices, in order, of the parts of bb that are the tag.
TagPositions(bb, tag) ==
  Ascending({k \in 1 .. Len(bb) : bb[k].kind = "chars" /\ bb[k].chars = tag})

\* The 4-byte (2-byte) field at byte offset off of the payload of the chunk
\* whose tag is part p.
DwordAt(bb, p, off) == DwordValue(bb[Skip(Offsets(bb), p + 2, off)])
WordAt(bb, p, off) == WordValue(bb[Skip(Offsets(bb), p + 2, off)])

\* The idx1 table of an output: its entries, each 16 bytes.
IndexOf(bb) ==
  LET p == TagPositions(bb, "idx1")[1]
      count == DwordValue(bb[p + 1]) \div 16
  IN [e \in 1 .. count |->
        LET q == p + 2 + 4 * (e - 1)
        IN [chId |-> bb[q].chars, dwFlags |-> DwordValue(bb[q + 1]),
            dwOffset |-> DwordValue(bb[q + 2]), dwLength |-> DwordValue(bb[q + 3])]]

\* The data chunks of an output, in order: tag, declared size, payload, and
\* the offset of the chunk from the movi tag.
DataChunks(bb) ==
  LET at == Ascending({k \in 1 .. Len(bb) : bb[k].kind = "blob"})
  IN [j \in 1 .. Len(at) |->
        [tag |-> bb[at[j] - 2].chars, dwSize |-> DwordValue(bb[at[j] - 1]),
         payload |-> bb[at[j]].blob,
         start |-> Offsets(bb)[at[j] - 2] - Offsets(bb)[TagPositions(bb, "movi")[1]]]]

RECURSIVE SumSizes(_, _)
\* The bytes the first k of the blobs take as data chunks (8 bytes of header each).
SumSizes(blobs, k) == IF k = 0 THEN 0 ELSE SumSizes(blobs, k - 1) + blobs[k].size + 8

HasAudio == audioBlob # <<>>

\* The positions of the header chunks of an output.
AvihAt(bb) == TagPositions(bb, "avih")[1]
VideoStrhAt(bb) == TagPositions(bb, "strh")[1]
AudioStrhAt(bb) == TagPositions(bb, "strh")[2]
AudioStrfAt(bb) == TagPositions(bb, "strf")[2]

\* ------------------------------------------------------------------ claims

\* The chunks an output is meant to hold for frameCount frames, with their
\* nesting depth, in file order.
ExpectedLayout(frameCount, audio) ==
  <<<<"RIFF", "AVI ", 0>>, <<"LIST", "hdrl", 1>>, <<"avih", "", 2>>,
    <<"LIST", "strl", 2>>, <<"strh", "", 3>>, <<"strf", "", 3>>>>
  \o (IF audio THEN <<<<"LIST", "strl", 2>>, <<"strh", "", 3>>, <<"strf", "", 3>>>>
      ELSE <<>>)
  \o <<<<"LIST", "movi", 1>>>>
  \o [i \in 1 .. frameCount |-> <<"00dc", "", 2>>]
  \o (IF audio THEN <<<<"01wb", "", 2>>>> ELSE <<>>)
  \o <<<<"idx1", "", 1>>>>

\* C1: every output of finish, read back as RIFF, parses completely: each
\* declared size (RIFF, LIST hdrl, each LIST strl, avih, strh, strf, LIST movi,
\* each 00dc/01wb chunk, idx1) ends exactly where the chunk's children end, the
\* chunks met are the ones the layout names, and the RIFF size is the total
\* length less 8.
C1_SizesMatch ==
  Built =>
    /\ Reparse(out) = [ok |-> TRUE, ids |-> ExpectedLayout(Len(frameList), HasAudio)]
    /\ DwordValue(out[2]) = ByteLength(out) - 8

C1_Witness ==
  /\ Built
  /\ Len(frameList) = 3
  /\ HasAudio
  /\ frameList[2].pad = 1
  /\ Reparse(out).ok
  /\ DwordValue(out[2]) = ByteLength(out) - 8

\* C2: the index of an output has one entry per frame, and one more when
\* there is an audio track; entry i lies at 4 + the sum over j < i of
\* (s_j + 8), which is where its chunk starts counted from the movi tag, so the
\* offsets start at 4 and increase strictly; its length is its chunk's payload
\* length: s_i for a frame, the PCM Blob's length for the audio entry, which
\* follows the last frame.
C2_IndexTable ==
  Built =>
    LET idx == IndexOf(out)
        chunks == DataChunks(out)
        N == Len(frameList)
    IN /\ Len(idx) = N + (IF HasAudio THEN 1 ELSE 0)
       /\ Len(chunks) = Len(idx)
       /\ \A i \in 1 .. N :
            /\ idx[i].dwOffset = 4 + SumSizes(frameList, i - 1)
            /\ idx[i].dwLength = frameList[i].size
       /\ HasAudio =>
            /\ idx[N + 1].dwOffset = 4 + SumSizes(frameList, N)
            /\ idx[N + 1].dwLength = audioBlob[1].size
       /\ \A i \in 1 .. Len(idx) :
            /\ idx[i].dwLength = chunks[i].payload.size
            /\ idx[i].dwLength = chunks[i].dwSize
            /\ idx[i].dwOffset = chunks[i].start
       /\ \A i \in 1 .. Len(idx) - 1 : idx[i].dwOffset < idx[i + 1].dwOffset
       /\ Len(idx) > 0 => idx[1].dwOffset = 4

C2_Witness ==
  /\ Built
  /\ HasAudio
  /\ [i \in 1 .. Len(frameList) |-> frameList[i].size] = <<100, 150, 120>>
  /\ [i \in 1 .. 4 |-> IndexOf(out)[i].dwOffset] = <<4, 112, 270, 398>>
  /\ [i \in 1 .. 4 |-> IndexOf(out)[i].dwLength] = <<100, 150, 120, 4000>>

\* C3: in every output, whatever the frame rate, the main header's total frame
\* count and the video stream header's length are the number of frames added.
C3_FrameCounts ==
  Built =>
    /\ DwordAt(out, AvihAt(out), 16) = Len(frameList)
    /\ DwordAt(out, VideoStrhAt(out), 32) = Len(frameList)

C3_Witness ==
  /\ Built
  /\ Len(frameList) = 3
  /\ movieDesc.fps = 15
  /\ DwordAt(out, AvihAt(out), 16) = 3
  /\ DwordAt(out, VideoStrhAt(out), 32) = 3

\* C4 as claimed: a finish called with fps zero or with no frames fails and
\* returns no blob.
C4_FailsOnBadConfig ==
  (ret.kind # "undefined" /\ (movieDesc.fps = 0 \/ frameList = <<>>))
    => ret.kind = "throw"

\* What finish does there: with neither a frame rate nor a frame it returns
\* a blob whose frame duration is written as 0 and that holds no video chunk.
C4_SilentlyBuilt ==
  /\ Built
  /\ movieDesc.fps = 0
  /\ frameList = <<>>
  /\ TagPositions(out, "00dc") = <<>>
  /\ DwordAt(out, AvihAt(out), 0) = 0

\* C5: a finish that follows a finish, with no other call between them,
\* returns the same bytes.
C5_Idempotent ==
  [][(ret.kind # "undefined" /\ ret'.kind # "undefined") => ret' = ret]_vars

\* A build is done, on records left behind by it, and finish can run again.
C5_Witness ==
  /\ Built
  /\ Len(frameList) = 2
  /\ HasAudio
  /\ Len(moviLIST.aStreams) = 3
  /\ IntOf(avi.dwSize) = ByteLength(out) - 8

\* C7: finish leaves the frame list, the movie descriptor and the audio track
\* as they were.
C7_AccumulatedUntouched ==
  [][ret'.kind # "undefined" =>
       /\ frameList' = frameList
       /\ movieDesc' = movieDesc
       /\ audioBlob' = audioBlob
       /\ audioNumChannels' = audioNumChannels
       /\ audioSampleRate' = audioSampleRate]_vars

C7_Witness ==
  /\ Built
  /\ Len(frameList) = 3
  /\ movieDesc.videoStreamSize = 370
  /\ movieDesc.maxJPEGSize = 150
  /\ HasAudio

\* C8: the data chunks of an output are the frames, as 00dc chunks in the
\* order added, then one 01wb chunk holding the whole PCM Blob exactly when an
\* audio track was set; the index entries carry the same tags in the same
\* order; and the header list holds a second (audio) stream list exactly when
\* the audio chunk is there.
C8_ChunkOrder ==
  Built =>
    LET chunks == DataChunks(out)
        idx == IndexOf(out)
        N == Len(frameList)
        audioSet == lastAudio # <<>>
    IN /\ Len(chunks) = N + (IF audioSet THEN 1 ELSE 0)
       /\ \A i \in 1 .. N :
            chunks[i].tag = "00dc" /\ chunks[i].payload = frameList[i]
       /\ audioSet =>
            /\ chunks[N + 1].tag = "01wb"
            /\ chunks[N + 1].payload = lastAudio[1].blob[1]
       /\ Len(idx) = Len(chunks)
       /\ \A i \in 1 .. Len(chunks) : idx[i].chId = chunks[i].tag
       /\ Len(TagPositions(out, "strl")) = (IF audioSet THEN 2 ELSE 1)
       /\ audioSet => out[AudioStrhAt(out) + 2].chars = "auds"
       /\ out[VideoStrhAt(out) + 2].chars = "vids"

C8_Witness ==
  /\ Built
  /\ Len(frameList) = 3
  /\ frameList[1].src = "jpegC" /\ frameList[2].src = "jpegA" /\ frameList[3].src = "jpegB"
  /\ lastAudio # <<>>
  /\ DataChunks(out)[1].payload.src = "jpegC"
  /\ DataChunks(out)[4].tag = "01wb"

\* C9: however addAudio calls were interleaved with the other calls, an output
\* has at most one audio chunk and one audio index entry, and when addAudio
\* was called the chunk's payload and the channel count and sample rate of the
\* audio format record are those of the latest call.
C9_LastAudioWins ==
  Built =>
    LET chunks == DataChunks(out)
        idx == IndexOf(out)
        audioChunks == {i \in 1 .. Len(chunks) : chunks[i].tag = "01wb"}
        audioEntries == {i \in 1 .. Len(idx) : idx[i].chId = "01wb"}
    IN /\ Cardinality(audioChunks) <= 1
       /\ Cardinality(audioEntries) <= 1
       /\ lastAudio = <<>> => audioChunks = {} /\ audioEntries = {}
       /\ lastAudio # <<>> =>
            /\ Cardinality(audioChunks) = 1
            /\ Cardinality(audioEntries) = 1
            /\ \A i \in audioChunks : chunks[i].payload = lastAudio[1].blob[1]
            /\ WordAt(out, AudioStrfAt(out), 2) = lastAudio[1].numChannels
            /\ DwordAt(out, AudioStrfAt(out), 4) = lastAudio[1].sampleRate

C9_Witness ==
  /\ Built
  /\ audioReplaced
  /\ lastAudio[1].numChannels = 2
  /\ Len(frameList) = 2
  /\ DataChunks(out)[3].payload.src = "pcmB"
  /\ DwordAt(out, AudioStrfAt(out), 4) = 44100

\* C10: with an audio track, the audio stream header of an output has scale 1,
\* rate channels * sampleRate and sample size 2, and for a frame rate above
\* zero its length is the integer part of
\* channels * sampleRate * frameCount / fps.
C10_AudioStreamHeader ==
  (Built /\ HasAudio) =>
    LET p == AudioStrhAt(out)
        rate == audioNumChannels[1] * audioSampleRate[1]
    IN /\ DwordAt(out, p, 20) = 1
       /\ DwordAt(out, p, 24) = rate
       /\ DwordAt(out, p, 44) = 2
       /\ movieDesc.fps > 0 =>
            DwordAt(out, p, 32) = (rate * Len(frameList)) \div movieDesc.fps

\* One frame of 8000 Hz mono at 15 frames a second: 533 and a third.
C10_Witness ==
  /\ Built
  /\ HasAudio
  /\ audioNumChannels = <<1>> /\ audioSampleRate = <<8000>>
  /\ Len(frameList) = 1
  /\ movieDesc.fps = 15
  /\ DwordAt(out, AudioStrhAt(out), 32) = 533

\* The field types the writer's switch has a case for.
KnownTypes == {"b", "c", "d", "w", "W", "a", "r", "s", "h"}

RECURSIVE Defective(_)
\* s, or a record nested in it or in an array of it, lacks its order list or
\* lists a field of no known type.
Defective(s) ==
  \/ "_order" \notin DOMAIN s
  \/ \E i \in 1 .. Len(s._order) :
       LET f == s._order[i]
       IN \/ charAt0(f) \notin KnownTypes
          \/ charAt0(f) = "s" /\ Defective(s[f])
          \/ charAt0(f) = "a" /\ \E j \in 1 .. Len(s[f]) : Defective(s[f][j])

RECURSIVE SeqSum(_)
SeqSum(q) == IF q = <<>> THEN 0 ELSE q[1] + SeqSum(Tail(q))

RECURSIVE FullSize(_)
\* The bytes of a well-formed record written in full.
FullSize(s) ==
  SeqSum([i \in 1 .. Len(s._order) |->
    LET f == s._order[i]
        c == charAt0(f)
    IN CASE c = "b" -> 1
         [] c = "c" -> Len(s[f])
         [] c = "d" -> 4
         [] c \in {"w", "W"} -> 2
         [] c \in {"r", "h"} -> s[f].size
         [] c = "s" -> FullSize(s[f])
         [] c = "a" -> SeqSum([j \in 1 .. Len(s[f]) |-> FullSize(s[f][j])])])

\* C6: writing a record that lacks its order list, or that lists a field of
\* no known type (itself or in a record it holds), throws, and no Blob
\* is returned; a Blob that is returned holds the whole record.
C6_SchemaErrors ==
  ret.kind # "undefined" =>
    /\ Defective(avi) =>
         /\ ret.kind = "throw"
         /\ ret.thrown \in {MissingOrder, UnknownType}
         /\ ret.parts = <<>>
    /\ ret.kind = "blob" => ByteLength(ret.parts) = FullSize(avi)

\* The writer had pushed the first field when the second one made it throw.
C6_Witness ==
  /\ ret.kind = "throw"
  /\ ret.thrown = UnknownType
  /\ ret.field = "xExtra"
  /\ avi._order = <<"chFourCC", "xExtra">>
  /\ ret.parts = <<>>

\* C11: the main header of every output declares 2 streams, with an audio
\* track and without one, when the header list holds a single stream list.
C11_TwoStreamsDeclared ==
  Built =>
    /\ DwordAt(out, AvihAt(out), 24) = 2
    /\ Len(TagPositions(out, "strl")) = (IF HasAudio THEN 2 ELSE 1)

\* An output without audio: one stream list, two streams declared.
C11_Witness ==
  /\ Built
  /\ ~HasAudio
  /\ Len(frameList) = 2
  /\ Len(TagPositions(out, "strl")) = 1
  /\ TagPositions(out, "01wb") = <<>>
  /\ DwordAt(out, AvihAt(out), 24) = 2

\* The number of bytes atob decodes the frame of Blob b to.
DecodedLength(b) == (CHOOSE u \in DataURLs : u.src = b.src).len

\* C12: every stored frame is its decoded bytes and, when their number is odd,
\* one zero byte more, so its size is even; videoStreamSize is the sum of the
\* stored sizes, even too; in an output every index offset is even and each
\* video entry's length is the stored (padded) size.
C12_EvenFrames ==
  /\ \A i \in 1 .. Len(frameList) :
       LET b == frameList[i]
           len == DecodedLength(b)
       IN /\ b.size % 2 = 0
          /\ b.size = len + (len % 2)
          /\ b.pad = len % 2
  /\ movieDesc.videoStreamSize = SumSizes(frameList, Len(frameList)) - 8 * Len(frameList)
  /\ movieDesc.videoStreamSize % 2 = 0
  /\ Built =>
       LET idx == IndexOf(out)
       IN /\ \A e \in 1 .. Len(idx) : idx[e].dwOffset % 2 = 0
          /\ \A i \in 1 .. Len(frameList) :
               /\ idx[i].chId = "00dc"
               /\ idx[i].dwLength = frameList[i].size
               /\ idx[i].dwLength = DecodedLength(frameList[i]) + frameList[i].pad

\* A frame of 149 decoded bytes stored and indexed as 150 bytes, the audio
\* entry after it at an even offset.
C12_Witness ==
  /\ Built
  /\ HasAudio
  /\ Len(frameList) = 2
  /\ frameList[1].src = "jpegB" /\ frameList[1].pad = 1
  /\ IndexOf(out)[1].dwLength = 150
  /\ IndexOf(out)[2].dwOffset = 162
  /\ IndexOf(out)[3].chId = "01wb"
  /\ movieDesc.videoStreamSize % 2 = 0

\* The video chunks of an output, in order.
VideoPayloads(bb) ==
  LET chunks == DataChunks(bb)
      n == Cardinality({i \in 1 .. Len(chunks) : chunks[i].tag = "00dc"})
  IN [i \in 1 .. n |-> chunks[i].payload]

\* C13 as claimed: the blob handed to the cb of a stop call holds exactly the
\* frames captured between the start before that stop and the stop, in the
\* order captured; and once stop has returned, until the next start, no frame
\* is appended.
C13_BlobOfRecordedFrames ==
  /\ (cbStop # <<>> /\ atStop[cbStop[1]] # <<>>) =>
       LET expected == atStop[cbStop[1]][1]
       IN /\ ret.kind = "blob"
          /\ VideoPayloads(ret.parts) = [i \in 1 .. Len(expected) |-> FrameBlob(expected[i])]
  /\ lastStop # <<>> => _frames = atStop[lastStop[1]]

\* What the code does with sound: a start between stop and the callback of
\* exportRaw empties this._frames, and the callback builds the blob of the
\* new list.
C13_BlobOfLaterFrames ==
  /\ cbStop = <<1>>
  /\ starts = 2
  /\ atStop[1] # <<>>
  /\ Len(atStop[1][1]) = 1
  /\ ret.kind = "blob"
  /\ VideoPayloads(ret.parts) = <<>>

====
